---------------------------- MODULE Spec2Model ----------------------------
(***************************************************************************)
(* State-machine model of JuegoMarcianos (src/script.js): the Game object, *)
(* the canvas element, the host's pending timers and registered callbacks, *)
(* and the three handlers the host event loop runs to completion one at a  *)
(* time: timeout (spawn tick), mouseclick and Canvas.frame (redraw).       *)
(*                                                                         *)
(* Numbers.  game.difficulty is a JavaScript double.  It is modelled in    *)
(* fixed point: the integer d stands for d / Scale, and a product with     *)
(* 0.98 is the exact product 49/50 truncated to that precision.  Delays    *)
(* (1000 * difficulty) are in the same unit, so the delay 1000 is the      *)
(* integer 1000 * Scale and the floor 100 is 100 * Scale.                  *)
(*                                                                         *)
(* Object identity.  Every Enemy carries the allocation number `id` it got *)
(* from `new Enemy`; JavaScript's == on two objects is equality of ids.    *)
(***************************************************************************)
EXTENDS Integers, Sequences, FiniteSets

VARIABLES
    game,       \* the Game object of line 288: enemies, player, difficulty, state
    window,     \* the properties of the global object that Game.init writes
    element,    \* the <canvas> element: width, height, style.borderColor
    screen,     \* the overlay Canvas.frame painted last
    timers,     \* delays of the pending setTimeout(timeout, ...) calls
    hooks,      \* callbacks registered with the host: onload, click, frame
    loaded,     \* whether the host has delivered the page's load event
    nextId,     \* allocation number of the next Enemy object
    probe,      \* SpecRect only: one Rect, one point, and hasCollided's answer
    simple      \* SpecPair only: the variant of the game without score or game over

vars == <<game, window, element, screen, timers, hooks, loaded, nextId, probe, simple>>

---------------------------------------------------------------------------
(* Bounds of the model *)

\* Fixed-point precision: difficulty 1 is the integer Scale.
Scale == 1000000

\* The player stops clicking after this many points (Spec and SpecGeom).
MaxPoints == 100

\* SpecGeom: number of spawn ticks explored on a resizable canvas.
MaxSpawns == 3

\* Math.random() * n is drawn among the multiples of GridStep in its range.
GridStep == 5

\* SpecRect: rectangle origins range over 0..RectMax, sizes over 0..RectMax+1.
RectMax == 1

---------------------------------------------------------------------------
(* Program constants *)

\* src/script.js:275-276: every spawned rectangle is 50 by 50, and lines
\* 271-272 subtract the same 50 from the canvas dimensions.
EnemySize == 50

\* src/script.js:281: the game ends when this many targets are alive.
Capacity == 20

\* Canvas dimensions the host may give the element (SpecGeom).
CanvasWidths == {40, 50, 60}
CanvasHeights == {40, 50}

\* Pointer events: clientX / clientY of a click.
ClientXs == {-3, 2, 25, 52, 60}
ClientYs == {-3, 25, 60}
ClickEvents == [clientX : ClientXs, clientY : ClientYs]

\* Page layouts: the offsetParent chain from the canvas element upwards, the
\* element with no offsetParent left out (the loop of element_coords stops there).
Layouts == { <<>>,
             << [offsetLeft |-> 1, offsetTop |-> 0], [offsetLeft |-> 0, offsetTop |-> 1] >> }

---------------------------------------------------------------------------
(* JavaScript values that are not always numbers *)

Num(n) == [kind |-> "number", val |-> n]
Undefined == [kind |-> "undefined", val |-> 0]
NaN == [kind |-> "NaN", val |-> 0]

\* 1000 * v, as in `1000*this.difficulty`: undefined converts to NaN.
Times1000(v) == IF v.kind = "number" THEN Num(1000 * v.val) ELSE NaN

\* v * 0.98 in fixed point: floor(v * 49 / 50), without overflowing 32 bits.
Mul098(v) == (v \div 50) * 49 + ((v % 50) * 49) \div 50

\* The delay 1000 * difficulty of a numeric difficulty.
Delay(d) == 1000 * d

\* The constant 100 of line 279, in the unit of delays.
DelayFloor == 100 * Scale

---------------------------------------------------------------------------
(* Rect, Enemy, Player, Canvas *)

\* new Rect(xy, wh): stores both arguments as given, no validation.
NewRect(xy, wh) == [xy |-> xy, wh |-> wh]

\* Mutant of HasCollided: the far sides tested with `<`.
HasCollidedExclusive(rect, xy) ==
    IF /\ xy.x >= rect.xy.x /\ xy.x < rect.xy.x + rect.wh.w
       /\ xy.y >= rect.xy.y /\ xy.y < rect.xy.y + rect.wh.h
    THEN TRUE
    ELSE FALSE

HasCollided(rect, xy) ==
    IF /\ xy.x >= rect.xy.x /\ xy.x <= rect.xy.x + rect.wh.w
       /\ xy.y >= rect.xy.y /\ xy.y <= rect.xy.y + rect.wh.h
    THEN TRUE
    ELSE FALSE

\* Mutant of EnemyOf: one Enemy object kept and handed out again, rather
\* than a new one per call.
EnemyOfShared(id, ctx, rect, img) == [id |-> 0, ctx |-> ctx, rect |-> rect, img |-> img]

\* Enemy.of(ctx, rect, img) -> new Enemy(ctx, rect, img), allocated as object `id`.
EnemyOf(id, ctx, rect, img) == [id |-> id, ctx |-> ctx, rect |-> rect, img |-> img]

\* new Player()
NewPlayer == [points |-> 0]

\* Mutant of UpdateScore: the increment left out.
UpdateScoreForgotten(player) == player

UpdateScore(player) == [player EXCEPT !.points = @ + 1]

\* Canvas.mapColor(): "rgb(r, g, 0)" with r = n*255/20 and g = (20-n)*255/20,
\* kept as the two numerators over 20.
MapColor(n) == [r20 |-> n * 255, g20 |-> (Capacity - n) * 255]

\* style.borderColor before any handler has set it.
NoColor == [r20 |-> 0, g20 |-> 0]

\* The global name `canvas` of line 278 resolves to window.canvas: the Canvas
\* object once Game.init has run with this = window, whose ctx is the context.
GlobalCanvasCtx(w) == IF w.canvas = "Canvas" THEN "ctx2d" ELSE "undefined"

---------------------------------------------------------------------------
(* Helpers of mouseclick *)

RECURSIVE ElementCoords(_)
ElementCoords(chain) ==
    IF chain = <<>>
    THEN [x |-> 0, y |-> 0]
    ELSE LET rest == ElementCoords(Tail(chain))
         IN  [x |-> Head(chain).offsetLeft + rest.x,
              y |-> Head(chain).offsetTop + rest.y]

\* Mutant of FindFirst: the position counted from 1.
FindFirstOneBased(array, elem) ==
    LET found == {i \in 1..Len(array) : array[i].id = elem.id}
    IN  IF found = {}
        THEN -1
        ELSE CHOOSE i \in found : \A j \in found : i <= j

\* array.findIndex(e => e == element): 0-based index of the first element that
\* is the same object, or -1.
FindFirst(array, elem) ==
    LET found == {i \in 1..Len(array) : array[i].id = elem.id}
    IN  IF found = {}
        THEN -1
        ELSE (CHOOSE i \in found : \A j \in found : i <= j) - 1

\* Mutant of Splice: the delete count ignored, as array.splice(start) behaves.
SpliceToEnd(array, start, deleteCount) ==
    LET len  == Len(array)
        from == IF start < 0
                THEN (IF len + start < 0 THEN 0 ELSE len + start)
                ELSE (IF start > len THEN len ELSE start)
    IN  SubSeq(array, 1, from)

\* array.splice(start, deleteCount): a negative start counts from the end.
Splice(array, start, deleteCount) ==
    LET len  == Len(array)
        from == IF start < 0
                THEN (IF len + start < 0 THEN 0 ELSE len + start)
                ELSE (IF start > len THEN len ELSE start)
        cnt  == IF deleteCount < 0 THEN 0
                ELSE IF deleteCount > len - from THEN len - from
                ELSE deleteCount
    IN  SubSeq(array, 1, from) \o SubSeq(array, from + cnt + 1, len)

---------------------------------------------------------------------------
(* Initial state: the script has run to its last line (288-291) *)

\* new Game(new Canvas(...), [], new Player()), lines 16-22 and 288-290.
NewGame(enemies, player) ==
    [enemies |-> enemies, player |-> player, difficulty |-> Scale, state |-> TRUE]

\* The variant's globals before its initGame has run: `let canvas; let enemies;`
\* (src/unnamed/part_000, lines 1-2), no interval set, no Enemy allocated.
NoSimple == [started |-> FALSE, enemies |-> <<>>, nextId |-> 1]

\* What the game shares between all specifications: the constructed Game, the
\* global object before Game.init, window.onload set, nothing painted.
InitGame ==
    /\ game = NewGame(<<>>, NewPlayer)
    /\ window = [canvas |-> "HTMLCanvasElement", enemies |-> "undefined",
                 player |-> "undefined", difficulty |-> Undefined]
    /\ screen = "blank"
    /\ timers = <<>>
    /\ hooks = {"onload"}
    /\ loaded = FALSE
    /\ nextId = 1
    /\ simple = NoSimple

NoProbe == [rect |-> NewRect([x |-> 0, y |-> 0], [w |-> 0, h |-> 0]),
            xy |-> [x |-> 0, y |-> 0], result |-> "none"]

\* Spec: a canvas of exactly one target's size, never resized.
Init ==
    /\ InitGame
    /\ element = [width |-> EnemySize, height |-> EnemySize, borderColor |-> NoColor]
    /\ probe = NoProbe

\* SpecGeom: the page gives the canvas any of the modelled dimensions.
InitGeom ==
    /\ InitGame
    /\ \E w \in CanvasWidths, h \in CanvasHeights :
          element = [width |-> w, height |-> h, borderColor |-> NoColor]
    /\ probe = NoProbe

---------------------------------------------------------------------------
(* Game.init and the page-load hook *)

\* this.difficulty, for the object `self` that init runs on.
ThisDifficulty(self) ==
    IF self = "game" THEN Num(game.difficulty) ELSE window.difficulty

\* Game.init with `this` bound to `self` ("game" or "window").
GameInit(self) ==
    /\ IF self = "game"
       THEN /\ game' = [game EXCEPT !.enemies = <<>>, !.player = NewPlayer]
            /\ UNCHANGED window
       ELSE /\ window' = [window EXCEPT !.canvas = "Canvas", !.enemies = "Array",
                                         !.player = "Player"]
            /\ UNCHANGED game
    /\ hooks' = hooks \cup {"click", "frame"}
    /\ timers' = Append(timers, Times1000(ThisDifficulty(self)))
    /\ UNCHANGED <<element, screen, nextId, probe>>

\* window.onload = game.init: the host calls the bare function once, when the
\* page has loaded, with this = window.
OnLoad ==
    /\ "onload" \in hooks
    /\ ~loaded
    /\ loaded' = TRUE
    /\ GameInit("window")

---------------------------------------------------------------------------
(* timeout: the spawn tick *)

\* Math.random() * n for an integer n: Math.random() is in [0, 1), so the
\* product is in [0, n) for n > 0, is 0 for n = 0 and is in (n, 0] for n < 0.
\* The model draws the multiples of GridStep in that range.
RandomTimes(n) ==
    IF n > 0 THEN {v \in 0..(n - 1) : v % GridStep = 0}
    ELSE IF n = 0 THEN {0}
    ELSE {v \in (n + 1)..0 : (-v) % GridStep = 0}

\* Mutant of Decay: the floor test left out.
DecayNoFloor(difficulty) == Mul098(difficulty)

\* Lines 279-280: the decay of game.difficulty.
Decay(difficulty) ==
    IF Mul098(Delay(difficulty)) > DelayFloor
    THEN Mul098(difficulty)
    ELSE difficulty

\* Mutant of Reschedule: the capacity test written `<=`, so the tick that
\* reaches the capacity still re-arms and leaves the game running.
RescheduleOffByOne(g, el) ==
    IF Len(g.enemies) <= Capacity
    THEN [game    |-> g,
          element |-> [el EXCEPT !.borderColor = MapColor(Len(g.enemies))],
          armed   |-> << Times1000(Num(g.difficulty)) >>]
    ELSE [game    |-> [g EXCEPT !.state = FALSE],
          element |-> el,
          armed   |-> <<>>]

\* Mutant of Reschedule: the setTimeout moved out of the `if`, so the last
\* tick ends the game and still arms another tick.
RescheduleAlways(g, el) ==
    [game    |-> IF Len(g.enemies) < Capacity THEN g ELSE [g EXCEPT !.state = FALSE],
     element |-> IF Len(g.enemies) < Capacity
                 THEN [el EXCEPT !.borderColor = MapColor(Len(g.enemies))]
                 ELSE el,
     armed   |-> << Times1000(Num(g.difficulty)) >>]

\* Mutant of Reschedule: the setTimeout of line 283 left out, as if the timer
\* armed by Game.init repeated by itself.
RescheduleNever(g, el) ==
    IF Len(g.enemies) < Capacity
    THEN [game    |-> g,
          element |-> [el EXCEPT !.borderColor = MapColor(Len(g.enemies))],
          armed   |-> <<>>]
    ELSE [game    |-> [g EXCEPT !.state = FALSE],
          element |-> el,
          armed   |-> <<>>]

\* Mutant of Reschedule: the game-over branch also calls Player.reset (lines
\* 212-214), so the tick that ends the game clears the score.
RescheduleResetsPlayer(g, el) ==
    IF Len(g.enemies) < Capacity
    THEN [game    |-> g,
          element |-> [el EXCEPT !.borderColor = MapColor(Len(g.enemies))],
          armed   |-> << Times1000(Num(g.difficulty)) >>]
    ELSE [game    |-> [g EXCEPT !.state = FALSE, !.player.points = 0],
          element |-> el,
          armed   |-> <<>>]

\* Lines 281-285, on the game after the push and the decay: the state of the
\* game, the border colour and the delay of the timer armed (none: <<>>).
Reschedule(g, el) ==
    IF Len(g.enemies) < Capacity
    THEN [game    |-> g,
          element |-> [el EXCEPT !.borderColor = MapColor(Len(g.enemies))],
          armed   |-> << Times1000(Num(g.difficulty)) >>]
    ELSE [game    |-> [g EXCEPT !.state = FALSE],
          element |-> el,
          armed   |-> <<>>]

\* Mutant of SpawnOrigins: the target's size not subtracted.
SpawnOriginsNoMargin(el) ==
    {[x |-> x, y |-> y] : x \in RandomTimes(el.width), y \in RandomTimes(el.height)}

\* Lines 271-272: the origins the tick may draw on canvas element el, whose
\* width and height are read afresh.
SpawnOrigins(el) ==
    {[x |-> x, y |-> y] : x \in RandomTimes(el.width - EnemySize),
                          y \in RandomTimes(el.height - EnemySize)}

\* Mutant of TimeoutAt: the next tick armed before the decay is applied, so
\* it is armed with the delay of the tick that is running.
TimeoutArmsBeforeDecay(k, xy) ==
    /\ k \in 1..Len(timers)
    /\ xy \in SpawnOrigins(element)
    /\ LET rect  == NewRect(xy, [w |-> EnemySize, h |-> EnemySize])
           enemy == EnemyOf(nextId, GlobalCanvasCtx(window), rect, "img/enemy.png")
           g1    == [game EXCEPT !.enemies = Append(@, enemy)]
           out   == Reschedule(g1, element)
       IN  /\ game' = [out.game EXCEPT !.difficulty = Decay(@)]
           /\ element' = out.element
           /\ timers' = Splice(timers, k - 1, 1) \o out.armed
    /\ nextId' = nextId + 1
    /\ UNCHANGED <<window, screen, hooks, loaded, probe>>

\* The host runs the callback of pending timer k; the tick draws origin xy.
TimeoutAt(k, xy) ==
    /\ k \in 1..Len(timers)
    /\ xy \in SpawnOrigins(element)
    /\ LET rect  == NewRect(xy, [w |-> EnemySize, h |-> EnemySize])
           enemy == EnemyOf(nextId, GlobalCanvasCtx(window), rect, "img/enemy.png")
           g1    == [game EXCEPT !.enemies = Append(@, enemy)]
           g2    == [g1 EXCEPT !.difficulty = Decay(@)]
           out   == Reschedule(g2, element)
       IN  /\ game' = out.game
           /\ element' = out.element
           /\ timers' = Splice(timers, k - 1, 1) \o out.armed
    /\ nextId' = nextId + 1
    /\ UNCHANGED <<window, screen, hooks, loaded, probe>>

Timeout(k) == \E xy \in SpawnOrigins(element) : TimeoutAt(k, xy)

---------------------------------------------------------------------------
(* mouseclick *)

\* Mutant of ClickLoop: the loop condition without `&& game.state`, as in the
\* variant of the game that has no game over.
RECURSIVE ClickLoopNoStateTest(_, _, _, _, _, _)
ClickLoopNoStateTest(i, collided, g, el, e, layout) ==
    IF i < Len(g.enemies) /\ ~collided
    THEN LET enemy    == g.enemies[i + 1]
             canvasxy == ElementCoords(layout)
             xy       == [x |-> e.clientX - canvasxy.x, y |-> e.clientY - canvasxy.y]
         IN  IF HasCollided(enemy.rect, xy)
             THEN LET g1  == [g EXCEPT !.enemies =
                                  Splice(@, FindFirst(@, enemy), 1)]
                      g2  == [g1 EXCEPT !.player = UpdateScore(@)]
                      el1 == [el EXCEPT !.borderColor = MapColor(Len(g2.enemies))]
                  IN  ClickLoopNoStateTest(i + 1, TRUE, g2, el1, e, layout)
             ELSE ClickLoopNoStateTest(i + 1, collided, g, el, e, layout)
    ELSE [game |-> g, element |-> el]

\* The loop of lines 252-266 from index i on, for the click event e on a page
\* laid out as `layout`; g and el are the game and the element so far.
RECURSIVE ClickLoop(_, _, _, _, _, _)
ClickLoop(i, collided, g, el, e, layout) ==
    IF i < Len(g.enemies) /\ ~collided /\ g.state
    THEN LET enemy    == g.enemies[i + 1]
             canvasxy == ElementCoords(layout)
             xy       == [x |-> e.clientX - canvasxy.x, y |-> e.clientY - canvasxy.y]
         IN  IF HasCollided(enemy.rect, xy)
             THEN LET g1  == [g EXCEPT !.enemies =
                                  Splice(@, FindFirst(@, enemy), 1)]
                      g2  == [g1 EXCEPT !.player = UpdateScore(@)]
                      el1 == [el EXCEPT !.borderColor = MapColor(Len(g2.enemies))]
                  IN  ClickLoop(i + 1, TRUE, g2, el1, e, layout)
             ELSE ClickLoop(i + 1, collided, g, el, e, layout)
    ELSE [game |-> g, element |-> el]

\* mouseclick(e) run on the current state: the game and the element it leaves.
ClickResult(e, layout) == ClickLoop(0, FALSE, game, element, e, layout)

\* The host delivers click event e to the listener registered by Game.init.
MouseClick(e, layout) ==
    /\ "click" \in hooks
    /\ game' = ClickResult(e, layout).game
    /\ element' = ClickResult(e, layout).element
    /\ UNCHANGED <<window, screen, timers, hooks, loaded, nextId, probe>>

---------------------------------------------------------------------------
(* Canvas.frame: the redraw *)

\* Lines 95-102: repaint, draw every enemy, then the score or the game-over
\* screen.  The painted pixels are kept as the overlay alone.
Frame ==
    /\ "frame" \in hooks
    /\ screen' = IF game.state THEN "points" ELSE "gameover"
    /\ UNCHANGED <<game, window, element, timers, hooks, loaded, nextId, probe>>

---------------------------------------------------------------------------
(* The host *)

\* The page changes the canvas element's width and height attributes.
Resize(w, h) ==
    /\ element' = [element EXCEPT !.width = w, !.height = h]
    /\ UNCHANGED <<game, window, screen, timers, hooks, loaded, nextId, probe>>

\* The events of a page that runs script.js alone: the variant is not there.
Load == OnLoad /\ UNCHANGED simple

\* A click of the player, who stops after MaxPoints points.
Click ==
    /\ game.player.points < MaxPoints
    /\ \E e \in ClickEvents, layout \in Layouts : MouseClick(e, layout)
    /\ UNCHANGED simple

Tick == (\E k \in 1..Len(timers) : Timeout(k)) /\ UNCHANGED simple

Redraw == Frame /\ UNCHANGED simple

Next ==
    \/ Load
    \/ Tick
    \/ Click
    \/ Redraw

Spec == Init /\ [][Next]_vars

\* The host runs the callback of a pending setTimeout once its delay has
\* passed, whatever else it dispatches meanwhile.
SpecFair == Init /\ [][Next]_vars /\ WF_vars(Tick)

\* A resizable canvas, explored for MaxSpawns spawn ticks.
TickGeom == nextId <= MaxSpawns /\ Tick

ResizeGeom ==
    (\E w \in CanvasWidths, h \in CanvasHeights : Resize(w, h)) /\ UNCHANGED simple

NextGeom ==
    \/ Load
    \/ TickGeom
    \/ Click
    \/ Redraw
    \/ ResizeGeom

SpecGeom == InitGeom /\ [][NextGeom]_vars

---------------------------------------------------------------------------
(* Rect.hasCollided on its own: one rectangle and one point, drawn from a grid *)

RectCoords == (0 - RectMax)..RectMax
RectSizes == 0..(RectMax + 1)
PointCoords == (0 - RectMax - 1)..(2 * RectMax + 2)

InitRect ==
    /\ InitGame
    /\ element = [width |-> EnemySize, height |-> EnemySize, borderColor |-> NoColor]
    /\ \E x \in RectCoords, y \in RectCoords, w \in RectSizes, h \in RectSizes,
          px \in PointCoords, py \in PointCoords :
          probe = [rect |-> NewRect([x |-> x, y |-> y], [w |-> w, h |-> h]),
                   xy |-> [x |-> px, y |-> py], result |-> "none"]

\* probe.rect.hasCollided(probe.xy)
HitTest ==
    /\ probe.result = "none"
    /\ probe' = [probe EXCEPT !.result =
                     IF HasCollided(probe.rect, probe.xy) THEN "hit" ELSE "miss"]
    /\ UNCHANGED <<game, window, element, screen, timers, hooks, loaded, nextId, simple>>

NextRect == HitTest

SpecRect == InitRect /\ [][NextRect]_vars

---------------------------------------------------------------------------
(* The variant without score, decay and game over (src/unnamed/part_000),   *)
(* on a page of its own with a canvas of the same dimensions, fed the same  *)
(* spawn origins and the same click events as the game of script.js.        *)
(* `simple` holds its global `enemies` and the number of its next Enemy.    *)

\* initGame, lines 165-187 of the variant: enemies = [], the listener and the
\* two intervals set.
SimpleInitGame(s) == [s EXCEPT !.started = TRUE, !.enemies = <<>>]

\* The callback of setInterval(..., 1000), lines 176-186 of the variant, when
\* Math.random() gives origin xy.
SimpleSpawn(s, xy) ==
    LET rect == NewRect(xy, [w |-> EnemySize, h |-> EnemySize])
    IN  [s EXCEPT !.enemies = Append(@, EnemyOf(s.nextId, "ctx2d", rect, "img/enemy.png")),
                  !.nextId = @ + 1]

\* Mutant of SimpleClickLoop: `collided = true` left out, so the scan goes on
\* after a hit.
RECURSIVE SimpleClickLoopNoBreak(_, _, _, _, _)
SimpleClickLoopNoBreak(i, collided, es, e, layout) ==
    IF i < Len(es) /\ ~collided
    THEN LET canvasxy == ElementCoords(layout)
             xy       == [x |-> e.clientX - canvasxy.x, y |-> e.clientY - canvasxy.y]
         IN  IF HasCollided(es[i + 1].rect, xy)
             THEN SimpleClickLoopNoBreak(i + 1, collided,
                                         Splice(es, FindFirst(es, es[i + 1]), 1), e, layout)
             ELSE SimpleClickLoopNoBreak(i + 1, collided, es, e, layout)
    ELSE es

\* The loop of the variant's mouseclick, lines 147-159, from index i on.
RECURSIVE SimpleClickLoop(_, _, _, _, _)
SimpleClickLoop(i, collided, es, e, layout) ==
    IF i < Len(es) /\ ~collided
    THEN LET canvasxy == ElementCoords(layout)
             xy       == [x |-> e.clientX - canvasxy.x, y |-> e.clientY - canvasxy.y]
         IN  IF HasCollided(es[i + 1].rect, xy)
             THEN SimpleClickLoop(i + 1, TRUE,
                                  Splice(es, FindFirst(es, es[i + 1]), 1), e, layout)
             ELSE SimpleClickLoop(i + 1, collided, es, e, layout)
    ELSE es

\* The variant's mouseclick(e).
SimpleMouseClick(s, e, layout) ==
    [s EXCEPT !.enemies = SimpleClickLoop(0, FALSE, @, e, layout)]

\* Both pages load.
PairLoad ==
    /\ OnLoad
    /\ ~simple.started
    /\ simple' = SimpleInitGame(simple)

\* Both games run a spawn tick that draws the same origin.  Beyond MaxSpawns
\* targets the run is followed on the canvas of one target's size only,
\* where the origin is always (0, 0).
PairTick ==
    /\ simple.started
    /\ nextId <= MaxSpawns \/ (element.width = EnemySize /\ element.height = EnemySize)
    /\ \E k \in 1..Len(timers), xy \in SpawnOrigins(element) :
          /\ TimeoutAt(k, xy)
          /\ simple' = SimpleSpawn(simple, xy)

\* Both games get the same click.
PairClick ==
    /\ simple.started
    /\ game.player.points < MaxPoints
    /\ \E e \in ClickEvents, layout \in Layouts :
          /\ MouseClick(e, layout)
          /\ simple' = SimpleMouseClick(simple, e, layout)

\* The variant's interval goes on once the game of script.js is over and has
\* no timer left; followed for one target more.
SimpleSpawnAlone ==
    /\ simple.started
    /\ ~game.state
    /\ simple.nextId = nextId
    /\ \E xy \in SpawnOrigins(element) : simple' = SimpleSpawn(simple, xy)
    /\ UNCHANGED <<game, window, element, screen, timers, hooks, loaded, nextId, probe>>

NextPair ==
    \/ PairLoad
    \/ PairTick
    \/ PairClick
    \/ SimpleSpawnAlone
    \/ Redraw

SpecPair == InitGeom /\ [][NextPair]_vars

---------------------------------------------------------------------------
(* Claims *)

\* The point of the canvas that click event e addresses on a page laid out
\* as `layout`.
ClickPoint(e, layout) ==
    [x |-> e.clientX - ElementCoords(layout).x,
     y |-> e.clientY - ElementCoords(layout).y]

\* The indices (1-based, spawn order) of the live targets whose rectangle
\* contains point xy.
Containing(xy) ==
    {i \in 1..Len(game.enemies) : HasCollided(game.enemies[i].rect, xy)}

\* C1: in every step, a spawn tick that brings the live target count to 20
\* leaves the running flag false, and a running flag that is false stays
\* false: there is no way back to running.
C1_GameOverIsFinal ==
    [][ /\ (Len(game.enemies) < Capacity /\ Len(game.enemies') = Capacity)
              => (game.state /\ ~game.state')
        /\ ~game.state => ~game.state'
      ]_vars

\* C1 witness: the game is over with 20 live targets, the player has scored
\* before, and a later event (a redraw) has run after the game ended.
C1_Witness ==
    /\ ~game.state
    /\ Len(game.enemies) = Capacity
    /\ game.player.points > 0
    /\ screen = "gameover"

\* C2: a click delivered while the game is not running leaves the live
\* target list, the score, the delay factor and the running flag as they
\* were, whatever the click coordinate.
C2_ClickAfterGameOverIsNoOp ==
    [][ \A e \in ClickEvents, layout \in Layouts :
            (~game.state /\ MouseClick(e, layout)) => game' = game
      ]_vars

\* C2 witness: the game is over, the click listener is registered and a
\* modelled click point lies inside a live target's rectangle.
C2_Witness ==
    /\ ~game.state
    /\ "click" \in hooks
    /\ game.player.points < MaxPoints
    /\ \E e \in ClickEvents, layout \in Layouts : Containing(ClickPoint(e, layout)) # {}

\* C3: in no state where the game is not running is a spawn timer pending,
\* so the timeout handler cannot run there.
C3_NoTimerAfterGameOver ==
    ~game.state => (timers = <<>> /\ ~ENABLED Tick)

\* C3 witness: the game is over after at least one spawn tick consumed its
\* timer, with nothing pending.
C3_Witness ==
    /\ ~game.state
    /\ timers = <<>>
    /\ nextId > Capacity

\* Sequence seq without its i-th element (1-based), the others in order.
WithoutIndex(seq, i) ==
    [j \in 1..(Len(seq) - 1) |-> IF j < i THEN seq[j] ELSE seq[j + 1]]

Least(S) == CHOOSE i \in S : \A j \in S : i <= j

\* C4: in every reachable running state and for every click, mouseclick
\* removes at most one target; when some live target contains the click
\* point, the list it leaves is the list before without the oldest-spawned
\* containing target, every other target kept in its order; when none does,
\* the list is unchanged.
C4_ClickRemovesOldestContaining ==
    (game.state /\ "click" \in hooks) =>
        \A e \in ClickEvents, layout \in Layouts :
            LET hits  == Containing(ClickPoint(e, layout))
                after == ClickResult(e, layout).game.enemies
            IN  IF hits = {}
                THEN after = game.enemies
                ELSE after = WithoutIndex(game.enemies, Least(hits))

\* C4 witness: the first-spawned target is still alive after a click removed
\* the second-spawned one, and a third one spawned later is alive behind it.
C4_Witness ==
    /\ game.state
    /\ game.player.points = 1
    /\ Len(game.enemies) = 2
    /\ game.enemies[1].id = 1
    /\ game.enemies[2].id = 3

\* C5: in every reachable running state and for every click, a click that
\* lands in some live target lowers the live target count by exactly 1 and
\* raises the score by exactly 1; a click that lands in none changes neither.
C5_HitCountsOnce ==
    (game.state /\ "click" \in hooks) =>
        \A e \in ClickEvents, layout \in Layouts :
            LET after == ClickResult(e, layout).game
            IN  IF Containing(ClickPoint(e, layout)) # {}
                THEN /\ Len(after.enemies) = Len(game.enemies) - 1
                     /\ after.player.points = game.player.points + 1
                ELSE /\ Len(after.enemies) = Len(game.enemies)
                     /\ after.player.points = game.player.points

\* C5 witness: two clicks have scored and a live target remains that some
\* modelled click misses and some other modelled click hits.
C5_Witness ==
    /\ game.state
    /\ game.player.points = 2
    /\ Len(game.enemies) = 1
    /\ \E e \in ClickEvents, layout \in Layouts : Containing(ClickPoint(e, layout)) = {}
    /\ \E e \in ClickEvents, layout \in Layouts : Containing(ClickPoint(e, layout)) # {}

\* C6: hasCollided answers true exactly when rectX <= x <= rectX+rectW and
\* rectY <= y <= rectY+rectH; the corner (rectX, rectY) and the far corner
\* (rectX+rectW, rectY+rectH) are hits, a point with x = rectX-1 is not.
C6_HasCollidedInclusive ==
    probe.result # "none" =>
        LET r == probe.rect
            p == probe.xy
        IN  /\ (probe.result = "hit") <=>
                  (/\ r.xy.x <= p.x /\ p.x <= r.xy.x + r.wh.w
                   /\ r.xy.y <= p.y /\ p.y <= r.xy.y + r.wh.h)
            /\ (p.x = r.xy.x /\ p.y = r.xy.y) => probe.result = "hit"
            /\ (p.x = r.xy.x + r.wh.w /\ p.y = r.xy.y + r.wh.h) => probe.result = "hit"
            /\ p.x = r.xy.x - 1 => probe.result = "miss"

\* C6 witness: the far corner of a rectangle of positive size was tested and
\* found a hit.
C6_Witness ==
    /\ probe.result = "hit"
    /\ probe.rect.wh.w > 0 /\ probe.rect.wh.h > 0
    /\ probe.xy.x = probe.rect.xy.x + probe.rect.wh.w
    /\ probe.xy.y = probe.rect.xy.y + probe.rect.wh.h

\* C7: a spawn tick that reads canvas dimensions W, H >= 50 appends a target
\* that is 50 by 50 with origin 0 <= x <= W-50 and 0 <= y <= H-50, and no
\* step alters a target that is already alive: every target alive after a
\* step is the one just spawned or was alive, as it is, before the step.
C7_SpawnedInsideCanvas ==
    [][ /\ (nextId' = nextId + 1 /\ element.width >= EnemySize
                                 /\ element.height >= EnemySize) =>
              LET t == game.enemies'[Len(game.enemies')]
              IN  /\ t.id = nextId
                  /\ t.rect.wh = [w |-> 50, h |-> 50]
                  /\ 0 <= t.rect.xy.x /\ t.rect.xy.x <= element.width - 50
                  /\ 0 <= t.rect.xy.y /\ t.rect.xy.y <= element.height - 50
        /\ \A i \in 1..Len(game.enemies') :
              \/ (nextId' = nextId + 1 /\ i = Len(game.enemies')
                                       /\ game.enemies'[i].id = nextId)
              \/ \E j \in 1..Len(game.enemies) : game.enemies[j] = game.enemies'[i]
      ]_vars

\* C7 witness: on a canvas at least 50 by 50 the latest spawn sits at a
\* positive x, beside an older live target, after a click has scored.
C7_Witness ==
    /\ element.width >= EnemySize /\ element.height >= EnemySize
    /\ Len(game.enemies) >= 2
    /\ game.player.points >= 1
    /\ game.enemies[Len(game.enemies)].id = nextId - 1
    /\ game.enemies[Len(game.enemies)].rect.xy.x > 0

\* C8: the spawn delay 1000 * game.difficulty is 1000 until the first tick;
\* a spawn tick takes the delay d to d * 0.98 when d * 0.98 > 100 and leaves
\* it alone otherwise, and no other step changes it; so the delay never
\* grows, is always above 100, and no longer changes once d * 0.98 <= 100.
\* (d * 0.98 is the product as the fixed-point difficulty holds it: within
\* one unit of the difficulty's last place, 1000 units of the delay's.)
C8_DelayDecaysToFloor ==
    [][ LET d  == Delay(game.difficulty)
            d1 == Delay(game.difficulty')
        IN  /\ nextId = 1 => d = 1000 * Scale
            /\ nextId' = nextId + 1 =>
                  IF Mul098(d) > DelayFloor
                  THEN d1 <= Mul098(d) /\ Mul098(d) - d1 < 1000
                  ELSE d1 = d
            /\ nextId' = nextId => d1 = d
            /\ d1 <= d
            /\ d > DelayFloor /\ d1 > DelayFloor
            /\ Mul098(d) <= DelayFloor => d1 = d
      ]_vars

\* C8 witness: the decay has stopped (d * 0.98 <= 100) and spawn ticks have
\* gone on after it stopped: MaxPoints targets were clicked away and all but
\* one place of the capacity is filled again, with the next tick armed at
\* the delay that no longer changes.
C8_Witness ==
    /\ Mul098(Delay(game.difficulty)) <= DelayFloor
    /\ game.state
    /\ game.player.points = MaxPoints
    /\ Len(game.enemies) = Capacity - 1
    /\ timers = << Num(Delay(game.difficulty)) >>

\* C9: once the page-load hook has run Game.init and before the first spawn
\* tick, the live target list is empty and the one pending spawn timer was
\* armed with the delay 1000 * initialDifficulty = 1000.
C9_FirstTickAfterInitialDelay ==
    (loaded /\ nextId = 1) =>
        /\ game.enemies = <<>>
        /\ timers = << Num(1000 * Scale) >>

\* C10: no target built on a Rect with a negative coordinate or dimension is
\* ever alive: such a construction is rejected, so a spawn tick on a canvas
\* narrower or shorter than 50 adds no target with a negative origin.
C10_NoNegativeRect ==
    \A i \in 1..Len(game.enemies) :
        LET r == game.enemies[i].rect
        IN  r.xy.x >= 0 /\ r.xy.y >= 0 /\ r.wh.w >= 0 /\ r.wh.h >= 0

\* The allocation numbers of the targets in list es.
Ids(es) == {es[i].id : i \in 1..Len(es)}

\* C11: a spawn tick appends its target, then applies the decay, then tests
\* the live count: below 20 it arms the one next tick with the delay already
\* decayed and the game keeps running, otherwise it clears the running flag
\* and arms nothing.  The tick after the first is armed with 980 (as the
\* fixed-point difficulty holds 1000 * 0.98), not with 1000.
C11_TickOrder ==
    [][ nextId' = nextId + 1 =>
          /\ Len(game.enemies') = Len(game.enemies) + 1
          /\ game.enemies'[Len(game.enemies')].id = nextId
          /\ game.difficulty' = IF Mul098(Delay(game.difficulty)) > DelayFloor
                                THEN Mul098(game.difficulty)
                                ELSE game.difficulty
          /\ IF Len(game.enemies') < 20
             THEN /\ timers' = << Num(Delay(game.difficulty')) >>
                  /\ game.state' = game.state
             ELSE /\ timers' = <<>>
                  /\ ~game.state'
          /\ nextId = 1 =>
                /\ timers'[1].kind = "number"
                /\ timers'[1].val <= 980 * Scale
                /\ timers'[1].val > 980 * Scale - 1000
      ]_vars

\* C11 witness: the first tick has run and has armed the second one with the
\* decayed delay, below the initial 1000.
C11_Witness ==
    /\ nextId = 2
    /\ Len(game.enemies) = 1
    /\ timers = << Num(Delay(game.difficulty)) >>
    /\ Delay(game.difficulty) < 1000 * Scale

\* C12: in every state between handlers the game is running exactly when
\* fewer than 20 targets are alive; the count never exceeds 20, and when the
\* game is over it is exactly 20.
C12_RunningIffBelowCapacity ==
    /\ game.state <=> Len(game.enemies) < 20
    /\ Len(game.enemies) <= 20
    /\ ~game.state => Len(game.enemies) = 20

\* C12 witness: the game is over with exactly 20 live targets and the player
\* could still click (the score is below the bound) on a live target.
C12_Witness ==
    /\ ~game.state
    /\ Len(game.enemies) = 20
    /\ game.player.points >= 2
    /\ game.player.points < MaxPoints
    /\ "click" \in hooks

\* C13: the number of targets spawned so far is the score plus the live
\* count, and live targets are distinct; a target leaves the list only in a
\* step that removes that one target and raises the score by 1 with no spawn,
\* and a target that has left never comes back.
C13_Conservation ==
    [][ /\ nextId - 1 = game.player.points + Len(game.enemies)
        /\ nextId' - 1 = game.player.points' + Len(game.enemies')
        /\ Cardinality(Ids(game.enemies')) = Len(game.enemies')
        /\ Ids(game.enemies') \subseteq Ids(game.enemies) \cup {nextId}
        /\ Ids(game.enemies) \ Ids(game.enemies') # {} =>
              /\ Cardinality(Ids(game.enemies) \ Ids(game.enemies')) = 1
              /\ game.player.points' = game.player.points + 1
              /\ nextId' = nextId
        /\ game.player.points' # game.player.points =>
              Ids(game.enemies) \ Ids(game.enemies') # {}
      ]_vars

\* C13 witness: three targets were spawned, a click removed the first one,
\* and the other two are alive.
C13_Witness ==
    /\ nextId = 4
    /\ game.player.points = 1
    /\ Len(game.enemies) = 2
    /\ game.enemies[1].id = 2

\* C14 as stated: in every state where the game is running exactly one spawn
\* timer is pending.
C14_OneTimerWheneverRunning ==
    game.state => Len(timers) = 1

\* C14 as amended: from Game.init on, in every state where the game is
\* running exactly one spawn timer is pending; and, the host's timer being
\* fair, a running game eventually runs another spawn tick (the number of
\* ticks run so far, nextId - 1, changes parity: it only ever grows by one).
C14_OneTimerOnceStarted ==
    /\ [](loaded /\ game.state => Len(timers) = 1)
    /\ \A b \in {0, 1} :
          (loaded /\ game.state /\ nextId % 2 = b) ~> (nextId % 2 = 1 - b)

\* C14 witness: the game runs after several ticks and a scoring click, with
\* its one timer pending.
C14_Witness ==
    /\ loaded /\ game.state
    /\ Len(timers) = 1
    /\ nextId > 3
    /\ game.player.points >= 1

\* Targets spawned so far minus successful hits so far.
Outstanding == (nextId - 1) - game.player.points

\* C15: the game is running exactly while spawned minus hits is below 20, and
\* it stops running only in a spawn tick, the one that brings that number to
\* 20; with no hit at all the game is over exactly when 20 ticks have run;
\* and, the host's timer being fair and the hits finitely many, a game that
\* Game.init has started eventually is over.
C15_EndsAtCapacity ==
    /\ [](game.state <=> Outstanding < 20)
    /\ [](~game.state => Outstanding = 20)
    /\ [][(game.state /\ ~game.state') => nextId' = nextId + 1]_vars
    /\ [](game.player.points = 0 => (~game.state <=> nextId - 1 = 20))
    /\ loaded ~> ~game.state

\* C15 witness: no click ever hit, 20 ticks have run and the game is over.
C15_Witness ==
    /\ ~game.state
    /\ game.player.points = 0
    /\ nextId = 21

\* What a click leaves alone: the delay factor, the running flag, the pending
\* timers; and it adds no target (none allocated, none new in the list).
ClickFootprint ==
    /\ game'.difficulty = game.difficulty
    /\ game'.state = game.state
    /\ timers' = timers
    /\ nextId' = nextId
    /\ Ids(game'.enemies) \subseteq Ids(game.enemies)

\* What a spawn tick leaves alone: the score; and it removes no target (the
\* old list is the head of the new one).
TickFootprint ==
    /\ game'.player = game.player
    /\ Len(game'.enemies) >= Len(game.enemies)
    /\ SubSeq(game'.enemies, 1, Len(game.enemies)) = game.enemies

\* What a redraw leaves alone: the live list, the score, the delay factor and
\* the running flag.
FrameFootprint ==
    /\ game'.enemies = game.enemies
    /\ game'.player = game.player
    /\ game'.difficulty = game.difficulty
    /\ game'.state = game.state

\* C16: every click step leaves the delay factor, the running flag and the
\* pending timers as they were and adds no target; every spawn tick leaves the
\* score as it was and removes no target; every redraw leaves the live list,
\* the score, the delay factor and the running flag as they were.
C16_HandlersWriteOwnPart ==
    [][ /\ ClickFootprint \/ ~Click
        /\ TickFootprint \/ ~Tick
        /\ FrameFootprint \/ ~Redraw ]_vars

\* C16 witness: a game that is over after ticks, hits and a redraw of the
\* game-over screen, each handler having acted on a score above zero.
C16_Witness ==
    /\ ~game.state
    /\ game.player.points >= 1
    /\ screen = "gameover"

\* The rectangles of the targets in list es, in list order.
Rects(es) == [i \in 1..Len(es) |-> es[i].rect]

\* The lists of the two variants differ: reached only once the game is over.
Diverged == Rects(simple.enemies) # Rects(game.enemies)

\* C17: fed the same spawn origins and the same clicks, the variant and the
\* game hold the same targets in the same order after every event that finds
\* the game running (the tick that ends the game included), and so in every
\* state where the game is running; the variant has done as many spawns.
C17_VariantHoldsSameList ==
    /\ [](loaded /\ game.state =>
             /\ Rects(simple.enemies) = Rects(game.enemies)
             /\ simple.nextId = nextId)
    /\ [][game.state => Rects(simple'.enemies) = Rects(game'.enemies)]_vars

\* C17 witness: both variants running after spawns at different origins and
\* a hit, holding two targets or more.
C17_Witness ==
    /\ loaded /\ game.state
    /\ game.player.points >= 1
    /\ Len(simple.enemies) >= 2
    /\ simple.enemies[1].rect # simple.enemies[2].rect

\* C18: the live targets are pairwise distinct objects, so for every index
\* the loop of mouseclick may be scanning, find_first on the live list and the
\* target at that index returns that index and not -1; and for every click
\* that hits, the target at the scanned index is the one removed, the last
\* element of the list staying unless it is the one hit.
C18_FindFirstReturnsScannedIndex ==
    /\ \A i \in 1..Len(game.enemies) :
          /\ FindFirst(game.enemies, game.enemies[i]) = i - 1
          /\ \A j \in 1..Len(game.enemies) :
                i # j => game.enemies[i].id # game.enemies[j].id
    /\ (game.state /\ "click" \in hooks) =>
          \A e \in ClickEvents, layout \in Layouts :
              LET hits  == Containing(ClickPoint(e, layout))
                  after == ClickResult(e, layout).game.enemies
                  last  == game.enemies[Len(game.enemies)]
              IN  hits # {} =>
                     /\ game.enemies[Least(hits)].id \notin Ids(after)
                     /\ Least(hits) # Len(game.enemies) =>
                            after[Len(after)] = last

\* C18 witness: a hit has removed the first-spawned target while later ones
\* live on, so the indices of the live list no longer follow the allocation
\* numbers, and a click can hit again.
C18_Witness ==
    /\ game.state /\ "click" \in hooks
    /\ game.player.points >= 1
    /\ Len(game.enemies) >= 2
    /\ game.enemies[1].id > 1
    /\ \E e \in ClickEvents, layout \in Layouts :
          Containing(ClickPoint(e, layout)) # {}

===========================================================================
